---- MODULE Spec2Model ----
(***************************************************************************)
(* Model of maps.az: the country-identity resolution and data-merge        *)
(* pipeline (generate_choropleth.py and the two compute_track_per scripts).*)
(*                                                                         *)
(* Strings are sequences of characters; a character is a one-element atom. *)
(* "U+00E9"/"U+00C9" stand for the non-ASCII letters e-acute (lower/upper).*)
(***************************************************************************)
EXTENDS Integers, Sequences, FiniteSets, TLC

VARIABLES
    \* ---- norm_name driver ----
    name_in,     \* the raw string handed to norm_name
    key1,        \* norm_name(name_in)
    key2,        \* norm_name(key1)
    npc,         \* "idle" | "start" | "once" | "twice"
    \* ---- the ISO registry (module pycountry) ----
    pycountry,   \* [imported, countries]: the module, or PycNone when the import failed
    \* ---- _clean_iso_code / map_name_to_iso3 driver ----
    code_in,     \* the argument: a string, or NaN (not a str)
    iso_out,     \* the value returned
    ipc,         \* "idle" | "start" | "clean" | "map"
    \* ---- generate_choropleth.py, main ----
    csv_file,       \* the CSV file as read_csv reads it: [columns, rows]
    args_country_col, \* args.country_col (NoCol when not given)
    args_value_col,   \* args.value_col
    args_iso_col,     \* args.iso_col
    args_interactive, \* args.interactive
    geo,         \* the Natural Earth dataset: [columns, rows]
    df,          \* what load_and_prepare returned: [value_col, rows]
    warned,      \* the row count printed in load_and_prepare's warning
    world,       \* the GeoDataFrame read, NoTable before
    chosen,      \* choose_iso_column(world)
    merged,      \* world.merge(df, how='left'): [value_col, rows]
    diag,        \* the debugging output: [valname, matched]
    outputs,     \* the output files written so far
    static_col,  \* the value_col handed to generate_static_map
    exit_status, \* the process's exit status, -1 while it runs
    fatal,       \* the sys.exit(1) site taken, "" when none
    mpc,         \* position in main
    \* ---- compute_track_per_area.py / compute_track_per_capita.py, main ----
    variant,     \* "area" | "capita": which of the two scripts runs
    ref_map,     \* area_map / pop_map: the dict in insertion order, [k, v] entries
    track_file,  \* the rows csv.reader yields from TRACK_FILE
    ti,          \* index of the next row of track_file the loop reads
    rows,        \* rows: [country, iso, value, src]; src is the input row it
                 \* came from (bookkeeping, not in the tuple the code builds)
    unmatched,   \* unmatched: [name, src]
    out_file,    \* the data rows written to OUT_FILE, NotWritten before
    reported,    \* the names printed to stderr, NotWritten before
    tpc,         \* "idle" | "loop" | "write" | "report" | "done" | "crashed"
    \* ---- compute_track_per_area.py, parse_area ----
    area_raw,    \* the argument: a string, or None
    area_val,    \* the value returned: [none, value]
    apc          \* "idle" | "start" | "done"

normVars == <<name_in, key1, key2, npc>>
isoVars  == <<code_in, iso_out, ipc>>

argVars  == <<csv_file, args_country_col, args_value_col, args_iso_col,
              args_interactive, geo>>
mainVars == <<df, warned, world, chosen, merged, diag, outputs, static_col,
              exit_status, fatal, mpc>>

trackVars == <<variant, ref_map, track_file, ti, rows, unmatched, out_file,
               reported, tpc>>

areaVars == <<area_raw, area_val, apc>>

vars == <<name_in, key1, key2, npc, pycountry, code_in, iso_out, ipc,
          variant, ref_map, track_file, ti, rows, unmatched, out_file,
          reported, tpc,
          csv_file, args_country_col, args_value_col, args_iso_col,
          args_interactive, geo,
          df, warned, world, chosen, merged, diag, outputs, static_col,
          exit_status, fatal, mpc,
          area_raw, area_val, apc>>

\* Python's None and pandas' missing value (a float, not a str); both are kept
\* apart from every string, whose elements are single characters
None == <<"None">>
NaN  == <<"NaN">>

-----------------------------------------------------------------------------
(* Characters and the str methods the code uses                              *)

LowerSeq == <<"a", "b", "c", "d", "e", "f", "g", "h", "i", "j", "k", "l", "m",
              "n", "o", "p", "q", "r", "s", "t", "u", "v", "w", "x", "y", "z">>
UpperSeq == <<"A", "B", "C", "D", "E", "F", "G", "H", "I", "J", "K", "L", "M",
              "N", "O", "P", "Q", "R", "S", "T", "U", "V", "W", "X", "Y", "Z">>
LowerAscii == {LowerSeq[i] : i \in 1..Len(LowerSeq)}
UpperAscii == {UpperSeq[i] : i \in 1..Len(UpperSeq)}
Digits     == {"0", "1", "2", "3", "4", "5", "6", "7", "8", "9"}
Whitespace == {" ", "\t"}
NonAscii   == {"U+00E9", "U+00C9"}
Punct      == {"'", "\"", ".", ",", "-", "<", "/"}
Chars      == LowerAscii \cup UpperAscii \cup Digits \cup Whitespace
                 \cup NonAscii \cup Punct

\* str.isalpha() on one character
IsAlphaCh(c) == c \in LowerAscii \cup UpperAscii \cup NonAscii

\* str.lower() on one character
LowerCh(c) ==
    IF c \in UpperAscii
    THEN LowerSeq[CHOOSE i \in 1..Len(UpperSeq) : UpperSeq[i] = c]
    ELSE IF c = "U+00C9" THEN "U+00E9" ELSE c

\* str.upper() on one character
UpperCh(c) ==
    IF c \in LowerAscii
    THEN UpperSeq[CHOOSE i \in 1..Len(LowerSeq) : LowerSeq[i] = c]
    ELSE IF c = "U+00E9" THEN "U+00C9" ELSE c

StrLower(s) == [i \in 1..Len(s) |-> LowerCh(s[i])]
StrUpper(s) == [i \in 1..Len(s) |-> UpperCh(s[i])]

\* str.isalpha(): non-empty and every character alphabetic
StrIsAlpha(s) == Len(s) > 0 /\ \A i \in 1..Len(s) : IsAlphaCh(s[i])

RECURSIVE LStrip(_)
LStrip(s) ==
    IF s # <<>> /\ Head(s) \in Whitespace THEN LStrip(Tail(s)) ELSE s

RECURSIVE RStrip(_)
RStrip(s) ==
    IF s # <<>> /\ s[Len(s)] \in Whitespace
    THEN RStrip(SubSeq(s, 1, Len(s) - 1)) ELSE s

\* str.strip()
StrStrip(s) == RStrip(LStrip(s))

\* re.sub(r"[set]", "", s)
RECURSIVE RemoveChars(_, _)
RemoveChars(s, set) ==
    IF s = <<>> THEN <<>>
    ELSE IF Head(s) \in set THEN RemoveChars(Tail(s), set)
    ELSE <<Head(s)>> \o RemoveChars(Tail(s), set)

RECURSIVE DropRun(_, _)
DropRun(s, set) ==
    IF s # <<>> /\ Head(s) \in set THEN DropRun(Tail(s), set) ELSE s

\* re.sub(r"[set]+", " ", s): every maximal run of characters of set -> one space
RECURSIVE SubRuns(_, _)
SubRuns(s, set) ==
    IF s = <<>> THEN <<>>
    ELSE IF Head(s) \in set
         THEN <<" ">> \o SubRuns(DropRun(Tail(s), set), set)
         ELSE <<Head(s)>> \o SubRuns(Tail(s), set)

\* the character class [a-z0-9 ]
KeyChars == LowerAscii \cup Digits \cup {" "}

-----------------------------------------------------------------------------
(* norm_name (identical in compute_track_per_area / compute_track_per_capita) *)

\* a variant without the final strip()
norm_name_nostrip(s) ==
    LET s1 == StrLower(StrStrip(s))
        s2 == RemoveChars(s1, {"'", "\"", ",", "."})
        s3 == SubRuns(s2, Chars \ KeyChars)
    IN  SubRuns(s3, Whitespace)

norm_name(s) ==
    LET s1 == StrLower(StrStrip(s))
        s2 == RemoveChars(s1, {"'", "\"", ",", "."})
        s3 == SubRuns(s2, Chars \ KeyChars)
        s4 == SubRuns(s3, Whitespace)
    IN  StrStrip(s4)

-----------------------------------------------------------------------------
(* The ISO 3166-1 registry, pycountry.countries                              *)

France == [alpha_2 |-> <<"F", "R">>, alpha_3 |-> <<"F", "R", "A">>,
           numeric |-> <<"2", "5", "0">>,
           name |-> <<"F", "r", "a", "n", "c", "e">>]
Italy  == [alpha_2 |-> <<"I", "T">>, alpha_3 |-> <<"I", "T", "A">>,
           numeric |-> <<"3", "8", "0">>,
           name |-> <<"I", "t", "a", "l", "y">>]
Belize == [alpha_2 |-> <<"B", "Z">>, alpha_3 |-> <<"B", "L", "Z">>,
           numeric |-> <<"0", "8", "4">>,
           name |-> <<"B", "e", "l", "i", "z", "e">>]
FullRegistry == {France, Italy, Belize}

\* what a failed lookup hands back (Python's None: it has no alpha_3)
NoCountry == [alpha_2 |-> None, alpha_3 |-> None, numeric |-> None, name |-> None]

\* the module object: "pycountry = None" when the import failed
PycNone == [imported |-> FALSE, countries |-> {}]
Pyc(reg) == [imported |-> TRUE, countries |-> reg]

\* pycountry.countries.get(alpha_2=code): the record, or None
countries_get_alpha_2(reg, code) ==
    IF \E c \in reg : c.alpha_2 = code
    THEN CHOOSE c \in reg : c.alpha_2 = code
    ELSE NoCountry

\* pycountry.countries.get(numeric=code): the record, or None
countries_get_numeric(reg, code) ==
    IF \E c \in reg : c.numeric = code
    THEN CHOOSE c \in reg : c.numeric = code
    ELSE NoCountry

\* pycountry.countries.lookup(s): case-insensitive over every field; None
\* stands for the LookupError it raises when nothing matches
countries_lookup(reg, s) ==
    LET hit(c) == StrLower(s) \in {StrLower(c.alpha_2), StrLower(c.alpha_3),
                                   StrLower(c.numeric), StrLower(c.name)}
    IN  IF \E c \in reg : hit(c) THEN CHOOSE c \in reg : hit(c) ELSE NoCountry

-----------------------------------------------------------------------------
(* generate_choropleth.py: code canonicalisation                             *)

IsStr(x) == x # NaN /\ x # None

\* a variant that gives up before looking at the code when the registry is missing
map_name_to_iso3_registry_first(name, pyc) ==
    IF ~IsStr(name) THEN None
    ELSE LET s == StrStrip(name)
         IN  IF ~pyc.imported THEN None
             ELSE IF Len(s) = 3 /\ StrIsAlpha(s) THEN StrUpper(s)
             ELSE LET c == countries_lookup(pyc.countries, s)
                  IN  c.alpha_3

map_name_to_iso3(name, pyc) ==
    IF ~IsStr(name) THEN None
    ELSE LET s == StrStrip(name)
         IN  IF Len(s) = 3 /\ StrIsAlpha(s) THEN StrUpper(s)
             ELSE IF ~pyc.imported THEN None
             ELSE LET c == countries_lookup(pyc.countries, s)
                  IN  c.alpha_3

_clean_iso_code(code, pyc) ==
    IF ~IsStr(code) THEN None
    ELSE LET s == StrStrip(code)
         IN  IF Len(s) = 3 /\ StrIsAlpha(s) THEN StrUpper(s)
             ELSE IF Len(s) = 2 /\ pyc.imported
             THEN LET c == countries_get_alpha_2(pyc.countries, StrUpper(s))
                  IN  c.alpha_3
             ELSE None

-----------------------------------------------------------------------------
(* Tables (pandas DataFrame / GeoDataFrame): columns in file order, rows as  *)
(* sequences of cells aligned with the columns. A cell is a string or NaN.   *)

\* None in a column-name position (argparse default, "no column detected")
NoCol == "None"

\* the column names of the model, in Python's string order (code points), each
\* with its str.lower() and str.upper()
ColNames == <<
    [name |-> "ADM0_A3",  lower |-> "adm0_a3",  upper |-> "ADM0_A3"],
    [name |-> "Country",  lower |-> "country",  upper |-> "COUNTRY"],
    [name |-> "ISO3",     lower |-> "iso3",     upper |-> "ISO3"],
    [name |-> "ISO_A3",   lower |-> "iso_a3",   upper |-> "ISO_A3"],
    [name |-> "NAME",     lower |-> "name",     upper |-> "NAME"],
    [name |-> "SOV_A3",   lower |-> "sov_a3",   upper |-> "SOV_A3"],
    [name |-> "adm0_a3",  lower |-> "adm0_a3",  upper |-> "ADM0_A3"],
    [name |-> "code",     lower |-> "code",     upper |-> "CODE"],
    [name |-> "country",  lower |-> "country",  upper |-> "COUNTRY"],
    [name |-> "iso3",     lower |-> "iso3",     upper |-> "ISO3"],
    [name |-> "iso_a3",   lower |-> "iso_a3",   upper |-> "ISO_A3"],
    [name |-> "pop",      lower |-> "pop",      upper |-> "POP"],
    [name |-> "value",    lower |-> "value",    upper |-> "VALUE"] >>

\* position of a column name in Python's string order
ColRank(c)  == CHOOSE i \in 1..Len(ColNames) : ColNames[i].name = c
ColLower(c) == ColNames[ColRank(c)].lower
ColUpper(c) == ColNames[ColRank(c)].upper

\* [c for c in cols if pred(c)] for a set of accepted names
RECURSIVE FilterCols(_, _, _)
FilterCols(cols, accepted, fold) ==
    IF cols = <<>> THEN <<>>
    ELSE LET c == Head(cols)
             k == IF fold = "lower" THEN ColLower(c) ELSE ColUpper(c)
             rest == FilterCols(Tail(cols), accepted, fold)
         IN  IF k \in accepted THEN <<c>> \o rest ELSE rest

ColIndex(t, col) == CHOOSE i \in 1..Len(t.columns) : t.columns[i] = col
HasCol(t, col) == \E i \in 1..Len(t.columns) : t.columns[i] = col
Cell(t, r, col) == t.rows[r][ColIndex(t, col)]

\* numeric values: a number, or missing
Num(n)  == [nan |-> FALSE, v |-> n]
NaNVal  == [nan |-> TRUE, v |-> 0]

DigitSeq == <<"0", "1", "2", "3", "4", "5", "6", "7", "8", "9">>
DigitVal(c) == (CHOOSE i \in 1..10 : DigitSeq[i] = c) - 1

RECURSIVE ParseDigits(_)
ParseDigits(s) ==
    IF s = <<>> THEN 0
    ELSE 10 * ParseDigits(SubSeq(s, 1, Len(s) - 1)) + DigitVal(s[Len(s)])

IsDigits(s) == IsStr(s) /\ Len(s) > 0 /\ \A i \in 1..Len(s) : s[i] \in Digits

\* pd.to_numeric(cell, errors='coerce') on a cell read by read_csv
to_numeric(cell) == IF IsDigits(cell) THEN Num(ParseDigits(cell)) ELSE NaNVal

\* Series.astype(str) on one cell: the missing value becomes the text 'nan'
astype_str(cell) == IF cell = NaN THEN <<"n", "a", "n">> ELSE cell

-----------------------------------------------------------------------------
(* generate_choropleth.py: auto_detect_columns, load_and_prepare              *)

FirstOrNone(cols) == IF cols = <<>> THEN NoCol ELSE cols[1]

auto_detect_columns(columns) ==
    [country |-> FirstOrNone(FilterCols(columns,
                    {"country", "country_name", "name", "nation"}, "lower")),
     value   |-> FirstOrNone(FilterCols(columns,
                    {"value", "val", "metric", "score"}, "lower")),
     iso     |-> FirstOrNone(FilterCols(columns,
                    {"iso", "iso3", "iso_a3", "country_iso", "country_iso3",
                     "country_iso_a3", "country_iso_code"}, "lower"))]

\* "a or b" on column names
OrCol(a, b) == IF a # NoCol THEN a ELSE b

\* a variant that falls back to the country name when the ISO cell is rejected
RECURSIVE PreparedRowsNameFallback(_, _, _, _, _, _)
PreparedRowsNameFallback(t, r, code_col, by_iso, value_col, pyc) ==
    IF r > Len(t.rows) THEN <<>>
    ELSE LET text == astype_str(Cell(t, r, code_col))
             iso0 == IF by_iso THEN _clean_iso_code(text, pyc)
                               ELSE map_name_to_iso3(text, pyc)
             iso  == IF iso0 = None /\ by_iso /\ HasCol(t, "country")
                     THEN map_name_to_iso3(astype_str(Cell(t, r, "country")), pyc)
                     ELSE iso0
             rest == PreparedRowsNameFallback(t, r + 1, code_col, by_iso, value_col, pyc)
         IN  IF iso = None THEN rest
             ELSE <<[row |-> r, iso_a3 |-> iso,
                     value |-> to_numeric(Cell(t, r, value_col))]>> \o rest

\* the rows of df after df['iso_a3'] = ...; dropna; to_numeric; df[['iso_a3', value_col]]
RECURSIVE PreparedRows(_, _, _, _, _, _)
PreparedRows(t, r, code_col, by_iso, value_col, pyc) ==
    IF r > Len(t.rows) THEN <<>>
    ELSE LET text == astype_str(Cell(t, r, code_col))
             iso  == IF by_iso THEN _clean_iso_code(text, pyc)
                               ELSE map_name_to_iso3(text, pyc)
             rest == PreparedRows(t, r + 1, code_col, by_iso, value_col, pyc)
         IN  IF iso = None THEN rest
             ELSE <<[row |-> r, iso_a3 |-> iso,
                     value |-> to_numeric(Cell(t, r, value_col))]>> \o rest

\* the outcome of load_and_prepare: exit = 1 (with the reason) when sys.exit(1)
\* was called, else the frame returned, the value column it holds, whether the
\* ISO column was used, and the count printed in the warning
LoadExit(why) ==
    [exit |-> 1, why |-> why, df |-> <<>>, value_col |-> NoCol,
     by_iso |-> FALSE, missing_iso |-> 0]

load_and_prepare(csv, country_col0, value_col0, iso_col0, pyc) ==
    LET detect == country_col0 = NoCol \/ value_col0 = NoCol \/ iso_col0 = NoCol
        det == auto_detect_columns(csv.columns)
        country_col == IF detect THEN OrCol(country_col0, det.country) ELSE country_col0
        value_col   == IF detect THEN OrCol(value_col0, det.value) ELSE value_col0
        iso_col     == IF detect THEN OrCol(iso_col0, det.iso) ELSE iso_col0
        by_iso == iso_col # NoCol /\ HasCol(csv, iso_col)
    IN  IF value_col = NoCol THEN LoadExit("no value column")
        ELSE IF ~by_iso /\ country_col = NoCol THEN LoadExit("no country or ISO column")
        ELSE LET code_col == IF by_iso THEN iso_col ELSE country_col
                 kept == PreparedRows(csv, 1, code_col, by_iso, value_col, pyc)
             IN  [exit |-> 0, why |-> "", df |-> kept, value_col |-> value_col,
                  by_iso |-> by_iso, missing_iso |-> Len(csv.rows) - Len(kept)]

-----------------------------------------------------------------------------
(* generate_choropleth.py, main: choose_iso_column, _normalize_world_iso,    *)
(* and the merge                                                             *)

Sentinels == {<<"-", "9", "9">>, <<"0">>}

\* score_col: the values of the column that look like alpha-3 codes
RECURSIVE CountGood(_, _, _)
CountGood(gdf, col, r) ==
    IF r > Len(gdf.rows) THEN 0
    ELSE LET cell == Cell(gdf, r, col)
             val  == IF IsStr(cell) THEN StrStrip(cell) ELSE cell
             good == /\ IsStr(cell)              \* dropna()
                     /\ Len(val) = 3
                     /\ StrIsAlpha(val)
                     /\ val \notin Sentinels
         IN  (IF good THEN 1 ELSE 0) + CountGood(gdf, col, r + 1)

score_col(gdf, col) == CountGood(gdf, col, 1)

IsoCandidates(gdf) ==
    LET first == FilterCols(gdf.columns, {"iso_a3", "iso3", "iso", "adm0_a3"}, "lower")
    IN  IF first # <<>> THEN first
        ELSE FilterCols(gdf.columns, {"ISO_A3", "ADM0_A3", "ISO3"}, "upper")

\* (score, name) tuples compared as Python compares tuples
TupleLeq(s1, c1, s2, c2) == s1 < s2 \/ (s1 = s2 /\ ColRank(c1) <= ColRank(c2))

\* a variant that takes the first candidate without looking at the scores
choose_iso_column_first(gdf) ==
    LET candidates == IsoCandidates(gdf)
    IN  IF candidates = <<>> THEN NoCol
        ELSE IF score_col(gdf, candidates[1]) = 0 THEN NoCol
        ELSE candidates[1]

\* scored.sort(reverse=True); scored[0] is the greatest (score, name) tuple
choose_iso_column(gdf) ==
    LET candidates == IsoCandidates(gdf)
        cset == {candidates[i] : i \in 1..Len(candidates)}
        best_col == CHOOSE c \in cset : \A d \in cset :
                        TupleLeq(score_col(gdf, d), d, score_col(gdf, c), c)
    IN  IF candidates = <<>> THEN NoCol
        ELSE IF score_col(gdf, best_col) = 0 THEN NoCol
        ELSE best_col

_normalize_world_iso(code) ==
    IF code = None THEN None
    ELSE LET s == StrStrip(code)
         IN  IF s = <<>> \/ s \in Sentinels THEN None ELSE StrUpper(s)

\* world['iso_a3'] after the rename and the normalisation, one code per feature
WorldIsos(gdf, col) ==
    [r \in 1..Len(gdf.rows) |-> _normalize_world_iso(Cell(gdf, r, col))]

\* the rows of df whose key equals code, in df's order
RECURSIVE MatchesOf(_, _)
MatchesOf(code, right) ==
    IF right = <<>> THEN <<>>
    ELSE IF Head(right).iso_a3 = code
         THEN <<Head(right)>> \o MatchesOf(code, Tail(right))
         ELSE MatchesOf(code, Tail(right))

\* world.merge(df, how='left', on 'iso_a3'): each feature once per matching
\* row of df, or once with a missing value when none matches
RECURSIVE LeftMerge(_, _, _)
LeftMerge(isos, right, f) ==
    IF f > Len(isos) THEN <<>>
    ELSE LET m == MatchesOf(isos[f], right)
             mine == IF m = <<>>
                     THEN <<[feature |-> f, iso_a3 |-> isos[f], value |-> NaNVal]>>
                     ELSE [i \in 1..Len(m) |->
                              [feature |-> f, iso_a3 |-> isos[f], value |-> m[i].value]]
         IN  mine \o LeftMerge(isos, right, f + 1)

RECURSIVE CountNotNa(_)
CountNotNa(frame) ==
    IF frame = <<>> THEN 0
    ELSE (IF Head(frame).value.nan THEN 0 ELSE 1) + CountNotNa(Tail(frame))

RECURSIVE CountIsoNotNa(_)
CountIsoNotNa(frame) ==
    IF frame = <<>> THEN 0
    ELSE (IF Head(frame).iso_a3 = None THEN 0 ELSE 1) + CountIsoNotNa(Tail(frame))

-----------------------------------------------------------------------------
(* compute_track_per_area.py / compute_track_per_capita.py                   *)

\* numbers are exact fractions num/den, den a power of ten
Frac(n, d) == [num |-> n, den |-> d]

RECURSIVE Pow10(_)
Pow10(n) == IF n = 0 THEN 1 ELSE 10 * Pow10(n - 1)

CountCh(s, c) == Cardinality({i \in 1..Len(s) : s[i] = c})

\* float(text) for a text of digits and dots: raised stands for ValueError
float_of(text) ==
    LET digits == RemoveChars(text, {"."})
        dot == IF CountCh(text, ".") = 1
               THEN CHOOSE i \in 1..Len(text) : text[i] = "." ELSE Len(text) + 1
    IN  IF CountCh(text, ".") > 1 \/ digits = <<>>
        THEN [raised |-> TRUE, value |-> Frac(0, 1)]
        ELSE [raised |-> FALSE,
              value |-> Frac(ParseDigits(digits),
                             IF dot > Len(text) THEN 1 ELSE Pow10(Len(text) - dot))]

\* float(re.sub(r"[^0-9.]", "", track_raw)), before the except clause
parse_track(track_raw) == float_of(RemoveChars(track_raw, Chars \ (Digits \cup {"."})))

\* str.zfill(3)
RECURSIVE zfill3(_)
zfill3(s) == IF Len(s) >= 3 THEN s ELSE zfill3(<<"0">> \o s)

\* '' for "no alpha-3"
numeric_to_alpha3(numeric_code, pyc) ==
    IF numeric_code = <<>> THEN <<>>
    ELSE LET code == zfill3(RemoveChars(numeric_code, Chars \ Digits))
             c == countries_get_numeric(pyc.countries, code)
         IN  IF c = NoCountry THEN <<>> ELSE c.alpha_3

\* the alias dict of each script: normalized name -> normalized name
Alias(v) ==
    { <<<<"c", "o", "n", "g", "o">>, <<"r", "e", "p", "u", "b", "l", "i", "c", " ", "o", "f", " ", "t", "h", "e", " ", "c", "o", "n", "g", "o">>>>,
      <<<<"d", "r", " ", "c", "o", "n", "g", "o">>, <<"d", "r", " ", "c", "o", "n", "g", "o">>>>,
      <<<<"i", "v", "o", "r", "y", " ", "c", "o", "a", "s", "t">>, <<"i", "v", "o", "r", "y", " ", "c", "o", "a", "s", "t">>>>,
      <<<<"u", "n", "i", "t", "e", "d", " ", "s", "t", "a", "t", "e", "s">>, <<"u", "n", "i", "t", "e", "d", " ", "s", "t", "a", "t", "e", "s">>>> }
    \cup (IF v = "capita"
          THEN { <<<<"s", "o", "u", "t", "h", " ", "k", "o", "r", "e", "a">>, <<"s", "o", "u", "t", "h", " ", "k", "o", "r", "e", "a">>>>,
                 <<<<"n", "o", "r", "t", "h", " ", "k", "o", "r", "e", "a">>, <<"n", "o", "r", "t", "h", " ", "k", "o", "r", "e", "a">>>> }
          ELSE {})

InAlias(v, name) == \E a \in Alias(v) : a[1] = name
AliasOf(v, name) == (CHOOSE a \in Alias(v) : a[1] = name)[2]

\* "a in b" on strings
IsSubstr(a, b) ==
    \E i \in 0..(Len(b) - Len(a)) : \A j \in 1..Len(a) : b[i + j] = a[j]

\* dict operations on the insertion-ordered map
HasKey(m, k) == \E i \in 1..Len(m) : m[i].k = k
ValueAt(m, k) == m[CHOOSE i \in 1..Len(m) : m[i].k = k].v

\* no reference value (Python's None in area_km2 / pop)
NoRef == Frac(-1, 1)

\* for k in m.keys(): if cname_norm in k or k in cname_norm: ...; break
FirstSubstringMatch(m, cname_norm) ==
    LET hits == {i \in 1..Len(m) :
                    IsSubstr(cname_norm, m[i].k) \/ IsSubstr(m[i].k, cname_norm)}
    IN  IF hits = {} THEN NoRef
        ELSE m[CHOOSE i \in hits : \A j \in hits : i <= j].v

\* a variant that runs the substring scan before the exact key and the alias
lookup_reference_scan_first(m, v, cname_norm) ==
    IF FirstSubstringMatch(m, cname_norm) # NoRef
    THEN FirstSubstringMatch(m, cname_norm)
    ELSE IF HasKey(m, cname_norm) THEN ValueAt(m, cname_norm)
    ELSE IF InAlias(v, cname_norm) /\ HasKey(m, AliasOf(v, cname_norm))
    THEN ValueAt(m, AliasOf(v, cname_norm))
    ELSE NoRef

\* the reference value resolved for a normalized name: exact key, alias, then
\* the substring scan
lookup_reference(m, v, cname_norm) ==
    IF HasKey(m, cname_norm) THEN ValueAt(m, cname_norm)
    ELSE IF InAlias(v, cname_norm) /\ HasKey(m, AliasOf(v, cname_norm))
    THEN ValueAt(m, AliasOf(v, cname_norm))
    ELSE FirstSubstringMatch(m, cname_norm)

SCALE == 1000

\* track / area_km2, and (track / pop) * SCALE
ValueOf(v, track, ref) ==
    IF v = "area"
    THEN Frac(track.num * ref.den, track.den * ref.num)
    ELSE Frac(track.num * ref.den * SCALE, track.den * ref.num)

\* ---- parse_area ----

\* U+202F (narrow no-break space) and U+2009 (thin space)
ThinSpaces == {"U+202F", "U+2009"}

\* what str.strip() and the pattern \s take for whitespace
UnicodeSpace == Whitespace \cup ThinSpaces

RECURSIVE DropTail(_, _)
DropTail(s, set) ==
    IF s # <<>> /\ s[Len(s)] \in set
    THEN DropTail(SubSeq(s, 1, Len(s) - 1), set) ELSE s

\* str.strip(), Unicode whitespace included
StripOf(s, set) == DropTail(DropRun(s, set), set)

\* s matches [0-9]*\.?[0-9]+ as a whole
IsDecimal(s) ==
    /\ Len(s) > 0
    /\ \A i \in 1..Len(s) : s[i] \in Digits \cup {"."}
    /\ CountCh(s, ".") <= 1
    /\ s[Len(s)] \in Digits

\* re.match(r'^([0-9]*\.?[0-9]+)\s*([kKmM]?)$', s): the groups when it matches
AreaMatch(s) ==
    LET suf  == IF s # <<>> /\ s[Len(s)] \in {"k", "K", "m", "M"}
                THEN <<s[Len(s)]>> ELSE <<>>
        body == SubSeq(s, 1, Len(s) - Len(suf))
        num  == DropTail(body, UnicodeSpace)
    IN  [matched |-> IsDecimal(num), num |-> num, suf |-> suf]

\* the floats of parse_area are decimals m * 10^e, kept without trailing zeros
Dec(m, e) == [m |-> m, e |-> e]

RECURSIVE NormDec(_)
NormDec(x) ==
    IF x.m = 0 THEN Dec(0, 0)
    ELSE IF x.m % 10 = 0 THEN NormDec(Dec(x.m \div 10, x.e + 1))
    ELSE x

RECURSIVE Log10(_)
Log10(d) == IF d <= 1 THEN 0 ELSE 1 + Log10(d \div 10)

\* float(text) as a decimal
DecOf(text) ==
    LET f == float_of(text).value IN NormDec(Dec(f.num, -Log10(f.den)))

\* what parse_area returns: None, or a number
Missing == [none |-> TRUE, value |-> Dec(0, 0)]
Some(x) == [none |-> FALSE, value |-> x]

\* num *= k, k a power of ten
Times(x, k) == NormDec(Dec(x.m, x.e + Log10(k)))

\* a variant whose fallback returns 0 when no digit is left
parse_area_zero_default(area_arg) ==
    IF area_arg = None THEN Missing
    ELSE LET s0 == StripOf(area_arg, UnicodeSpace)
         IN  IF s0 = <<>> \/ StrLower(s0) = <<"n", "a", "n">> THEN Missing
             ELSE LET s == StripOf(RemoveChars(s0, ThinSpaces \cup {",", "<"}),
                                   UnicodeSpace)
                      m == AreaMatch(s)
                      digits == RemoveChars(s, (Chars \cup ThinSpaces)
                                                   \ (Digits \cup {"."}))
                      suf == StrUpper(m.suf)
                      num == DecOf(m.num)
                  IN  IF ~m.matched
                      THEN IF digits = <<>> THEN Some(Dec(0, 0))
                           ELSE IF float_of(digits).raised THEN Missing
                           ELSE Some(DecOf(digits))
                      ELSE IF suf = <<"K">> THEN Some(Times(num, 1000))
                      ELSE IF suf = <<"M">> THEN Some(Times(num, 1000000))
                      ELSE Some(num)

parse_area(area_arg) ==
    IF area_arg = None THEN Missing
    ELSE LET s0 == StripOf(area_arg, UnicodeSpace)
         IN  IF s0 = <<>> \/ StrLower(s0) = <<"n", "a", "n">> THEN Missing
             ELSE LET s == StripOf(RemoveChars(s0, ThinSpaces \cup {",", "<"}),
                                   UnicodeSpace)
                      m == AreaMatch(s)
                      \* fallback: strip non-digits
                      digits == RemoveChars(s, (Chars \cup ThinSpaces)
                                                   \ (Digits \cup {"."}))
                      suf == StrUpper(m.suf)
                      num == DecOf(m.num)
                  IN  IF ~m.matched
                      THEN IF digits = <<>> THEN Missing
                           ELSE IF float_of(digits).raised THEN Missing
                           ELSE Some(DecOf(digits))
                      ELSE IF suf = <<"K">> THEN Some(Times(num, 1000))
                      ELSE IF suf = <<"M">> THEN Some(Times(num, 1000000))
                      ELSE Some(num)

-----------------------------------------------------------------------------
(* Bounded string universes                                                  *)

MaxNameLen == 4

\* x is a string over the alphabet of at most n characters
IsStringUpTo(x, alphabet, n) == \E k \in 0..n : x \in [1..k -> alphabet]

MaxCodeLen == 4
CodeAlphabet == {"F", "R", "a", " ", "9", "U+00E9"}

\* the registry as the scripts may find it: absent, or holding any of the records
Registries == {PycNone} \cup {Pyc(reg) : reg \in SUBSET {France, Italy}}

\* what a column holds, by its name
ColKind(c) ==
    IF ColLower(c) \in {"country", "name"} THEN "name"
    ELSE IF ColLower(c) \in {"value", "pop"} THEN "value"
    ELSE "iso"

\* the rows a table with the given columns may hold: each cell drawn, per kind
\* of column, from cells.name, cells.iso, cells.value
RowsOver(columns, cells) ==
    LET all == cells.name \cup cells.iso \cup cells.value
    IN  {r \in [1..Len(columns) -> all] :
            \A i \in 1..Len(columns) : r[i] \in cells[ColKind(columns[i])]}

\* t is a table over one of the headers, with lo..hi rows
IsTableOver(t, headers, cells, lo, hi) ==
    \E h \in headers : \E k \in lo..hi : \E rs \in [1..k -> RowsOver(h, cells)] :
        t = [columns |-> h, rows |-> rs]

FRA == <<"F", "R", "A">>
NOR == <<"N", "O", "R">>
DEU == <<"D", "E", "U">>
Minus99 == <<"-", "9", "9">>
FranceName == <<"F", "r", "a", "n", "c", "e">>
Atlantis == <<"A", "t", "l", "a", "n", "t", "i", "s">>

\* ---- inputs of load_and_prepare (SpecLoad) ----
MaxLoadRows == 2
LoadCells ==
    [name  |-> {FranceName, Atlantis},
     iso   |-> {<<" ", "f", "r", "a">>, <<"F", "R">>, <<"Q", "Q">>, NaN},
     value |-> {<<"5">>, <<"x">>}]
LoadHeaders == {<<"country", "iso3", "value">>, <<"Country", "code", "pop">>}

\* ---- inputs of choose_iso_column (SpecChoose) ----
MaxGeoRows == 3
GeoCells ==
    [name  |-> {<<"x">>},
     iso   |-> {FRA, NOR, Minus99, None},
     value |-> {}]
GeoHeaders == {<<"NAME">>, <<"NAME", "SOV_A3">>, <<"iso_a3">>,
               <<"ISO_A3", "ADM0_A3">>, <<"ADM0_A3", "ISO_A3">>}

\* ---- inputs of main (SpecMain) ----
MaxCsvRows == 2
MaxFeatures == 2
MainCells ==
    [name  |-> {FranceName},
     iso   |-> {FRA, <<"I", "T">>},
     value |-> {<<"5">>, <<"7">>}]
MainHeaders == {<<"country", "iso3", "value">>, <<"Country", "pop">>, <<"code", "pop">>}
MainGeoCells ==
    [name  |-> {<<"x">>},
     iso   |-> {FRA, DEU, Minus99},
     value |-> {}]
MainGeoHeaders == {<<"NAME", "ISO_A3">>, <<"NAME", "SOV_A3">>}

\* ---- inputs of the track pipelines (SpecTrack) ----
MaxTrackRows == 2
MaxRefKeys == 2
\* entries the reference table may hold (a value of 0 is a reference value too)
RefPool == { [k |-> <<"f", "r", "a", "n", "c", "e">>, v |-> Frac(547, 1)],
             [k |-> <<"r", "e", "p", "u", "b", "l", "i", "c", " ", "o", "f", " ", "t", "h", "e", " ", "c", "o", "n", "g", "o">>, v |-> Frac(342, 1)],
             [k |-> <<"a", "t", "l", "a", "n", "t", "i", "s">>, v |-> Frac(0, 1)] }
\* m is a dict over the pool: at most n entries, no key twice
IsRefMap(m, n) ==
    \E k \in 0..n : \E q \in [1..k -> RefPool] :
        /\ \A i, j \in 1..k : i # j => q[i].k # q[j].k
        /\ m = q
TrackNames == {<<"F", "r", "a", "n", "c", "e">>, <<"C", "o", "n", "g", "o">>, <<"A", "t", "l", "a", "n", "t", "i", "s">>}
TrackIsos == {<<"2", "5", "0">>, <<"9", "9", "9">>, FRA}
TrackQuantities == {<<"1", "2", "0", ".", "5">>, <<"n", "/", "a">>}
TrackRowKinds ==
    {<<n, i, q>> : n \in TrackNames, i \in TrackIsos, q \in TrackQuantities}
        \cup {<<<<"F", "r", "a", "n", "c", "e">>, <<"2", "5", "0">>>>}
IsTrackFile(f, n) == \E k \in 0..n : f \in [1..k -> TrackRowKinds]

\* ---- inputs of the name resolution (SpecResolve) ----
\* reference entries: exact keys, an alias target, a key that contains another,
\* the key '' (norm_name of a name made of punctuation) and a value of 0
ResolvePool == { [k |-> <<"f", "r", "a", "n", "c", "e">>, v |-> Frac(547, 1)],
                 [k |-> <<"r", "e", "p", "u", "b", "l", "i", "c", " ", "o", "f", " ", "t", "h", "e", " ", "c", "o", "n", "g", "o">>, v |-> Frac(342, 1)],
                 [k |-> <<"c", "o", "n", "g", "o">>, v |-> Frac(7, 1)],
                 [k |-> <<>>, v |-> Frac(9, 1)],
                 [k |-> <<"a", "t", "l", "a", "n", "t", "i", "s">>, v |-> Frac(0, 1)] }
\* m is a dict over the pool: at most n entries, no key twice
IsMapOver(m, pool, n) ==
    \E k \in 0..n : \E q \in [1..k -> pool] :
        /\ \A i, j \in 1..k : i # j => q[i].k # q[j].k
        /\ m = q
ResolveNames == {<<"F", "r", "a", "n", "c", "e">>, <<"C", "o", "n", "g", "o">>,
                 <<"F", "r", "a">>, <<"-", "-">>,
                 <<"A", "t", "l", "a", "n", "t", "i", "s">>, <<"Z", "z">>}
ResolveRowKinds ==
    {<<n, <<"2", "5", "0">>, <<"1", "2", "0", ".", "5">>>> : n \in ResolveNames}

\* the columns a caller may name: explicit country/value columns exist in the
\* file; --iso-col may name a column the file lacks
ColsOfKind(t, kind) ==
    {t.columns[i] : i \in {j \in 1..Len(t.columns) : ColKind(t.columns[j]) = kind}}

NormAlphabet == {"a", "A", "0", " ", "\t", ".", "-", "U+00E9"}

\* ---- inputs of parse_area (SpecArea) ----
MaxAreaLen == 4
AreaAlphabet == {"3", ".", "K", "m", "<", ",", " ", "U+202F", "x"}
AreaSamples == { <<"3", "M">>, <<"3", "6", "4", ".", "5", "K">>, <<"<", " ", "1">>,
                 <<"n", "a", "n">>, <<"N", "a", "N">>, <<"0">>,
                 <<"1", "U+2009", "0", "0", "0", "k">> }

-----------------------------------------------------------------------------
(* Specification SpecNorm: norm_name applied once, then to its own result    *)

NormIdle == name_in = <<>> /\ key1 = None /\ key2 = None /\ npc = "idle"

NoTable == [columns |-> <<>>, rows |-> <<>>]
NoFrame == [value_col |-> NoCol, rows |-> <<>>]
NoDiag  == [valname |-> NoCol, matched |-> 0]

\* main before load_and_prepare is called
MainFresh ==
    /\ df = NoFrame
    /\ warned = 0
    /\ world = NoTable
    /\ chosen = NoCol
    /\ merged = NoFrame
    /\ diag = NoDiag
    /\ outputs = {}
    /\ static_col = NoCol
    /\ exit_status = -1
    /\ fatal = ""

MainIdle ==
    /\ csv_file = NoTable
    /\ args_country_col = NoCol
    /\ args_value_col = NoCol
    /\ args_iso_col = NoCol
    /\ args_interactive = FALSE
    /\ geo = NoTable
    /\ MainFresh
    /\ mpc = "idle"

NotWritten == <<[none |-> TRUE]>>

TrackIdle ==
    /\ variant = "area"
    /\ ref_map = <<>>
    /\ track_file = <<>>
    /\ ti = 1
    /\ rows = <<>>
    /\ unmatched = <<>>
    /\ out_file = NotWritten
    /\ reported = NotWritten
    /\ tpc = "idle"

IsoIdle == code_in = NaN /\ iso_out = None /\ ipc = "idle"

AreaIdle == area_raw = None /\ area_val = Missing /\ apc = "idle"

InitNorm ==
    /\ IsStringUpTo(name_in, NormAlphabet, MaxNameLen)
    /\ key1 = None
    /\ key2 = None
    /\ npc = "start"
    /\ pycountry = PycNone
    /\ IsoIdle
    /\ MainIdle
    /\ TrackIdle
    /\ AreaIdle

NormOnce ==
    /\ npc = "start"
    /\ key1' = norm_name(name_in)
    /\ npc' = "once"
    /\ UNCHANGED <<name_in, key2, pycountry, isoVars, argVars, mainVars, trackVars, areaVars>>

NormTwice ==
    /\ npc = "once"
    /\ key2' = norm_name(key1)
    /\ npc' = "twice"
    /\ UNCHANGED <<name_in, key1, pycountry, isoVars, argVars, mainVars, trackVars, areaVars>>

NextNorm == NormOnce \/ NormTwice

SpecNorm == InitNorm /\ [][NextNorm]_vars

IsCleanKey(k) ==
    /\ k \in Seq(KeyChars)
    /\ (k # <<>> => k[1] # " " /\ k[Len(k)] # " ")
    /\ \A i \in 1..(Len(k) - 1) : ~(k[i] = " " /\ k[i + 1] = " ")

\* C7: norm_name is total and idempotent; every key it returns is over
\* [a-z0-9 ], has no leading or trailing space and no two consecutive spaces;
\* the empty string maps to the empty key.
C7_NormNameIdempotentClean ==
    /\ npc \in {"once", "twice"} =>
          /\ IsCleanKey(key1)
          /\ (name_in = <<>> => key1 = <<>>)
    /\ npc = "twice" => key2 = key1

C7_Witness ==
    /\ npc = "twice"
    /\ name_in = <<"\t", "A", "-", ".">>
    /\ key1 = <<"a">>
    /\ key2 = <<"a">>

-----------------------------------------------------------------------------
(* Specification SpecIso: the two code canonicalisers on one argument        *)

InitIso ==
    /\ code_in = NaN \/ IsStringUpTo(code_in, CodeAlphabet, MaxCodeLen)
    /\ pycountry \in Registries
    /\ iso_out = None
    /\ ipc = "start"
    /\ NormIdle
    /\ MainIdle
    /\ TrackIdle
    /\ AreaIdle

CleanIsoCode ==
    /\ ipc = "start"
    /\ iso_out' = _clean_iso_code(code_in, pycountry)
    /\ ipc' = "clean"
    /\ UNCHANGED <<code_in, pycountry, normVars, argVars, mainVars, trackVars, areaVars>>

MapNameToIso3 ==
    /\ ipc = "start"
    /\ iso_out' = map_name_to_iso3(code_in, pycountry)
    /\ ipc' = "map"
    /\ UNCHANGED <<code_in, pycountry, normVars, argVars, mainVars, trackVars, areaVars>>

NextIso == CleanIsoCode \/ MapNameToIso3

SpecIso == InitIso /\ [][NextIso]_vars

\* exactly three alphabetic characters once trimmed
IsAlpha3Trimmed(x) ==
    /\ IsStr(x)
    /\ Len(StrStrip(x)) = 3
    /\ \A i \in 1..3 : IsAlphaCh(StrStrip(x)[i])

\* C8: an argument that is exactly 3 alphabetic characters after trimming is
\* returned uppercased by _clean_iso_code and by map_name_to_iso3, whatever
\* the registry is (missing, or holding the code or not).
C8_Alpha3UppercasedWithoutRegistry ==
    (ipc \in {"clean", "map"} /\ IsAlpha3Trimmed(code_in))
        => iso_out = StrUpper(StrStrip(code_in))

C8_Witness ==
    /\ ipc = "map"
    /\ pycountry = PycNone
    /\ code_in = <<" ", "F", "a", "U+00E9">>
    /\ iso_out = <<"F", "A", "U+00C9">>

-----------------------------------------------------------------------------
(* generate_choropleth.py, main(), one action per stage                      *)

Exit(why) ==
    /\ exit_status' = 1
    /\ fatal' = why
    /\ mpc' = "exited"

\* df = load_and_prepare(args.csv, args.country_col, args.value_col, args.iso_col)
LoadAndPrepare ==
    /\ mpc = "start"
    /\ LET r == load_and_prepare(csv_file, args_country_col, args_value_col,
                                 args_iso_col, pycountry)
       IN  IF r.exit = 1
           THEN /\ Exit(r.why)
                /\ UNCHANGED <<df, warned>>
           ELSE /\ df' = [value_col |-> r.value_col, rows |-> r.df]
                /\ warned' = r.missing_iso
                /\ mpc' = "read_world"
                /\ UNCHANGED <<exit_status, fatal>>
    /\ UNCHANGED <<world, chosen, merged, diag, outputs, static_col>>
    /\ UNCHANGED <<pycountry, argVars, normVars, isoVars, trackVars, areaVars>>

\* world = gpd.read_file(...): the built-in dataset, else the download, else exit
ReadWorld ==
    /\ mpc = "read_world"
    /\ \E loaded \in BOOLEAN :
          IF loaded
          THEN /\ world' = geo
               /\ mpc' = "choose"
               /\ UNCHANGED <<exit_status, fatal>>
          ELSE /\ Exit("geometry not loaded")
               /\ UNCHANGED world
    /\ UNCHANGED <<df, warned, chosen, merged, diag, outputs, static_col>>
    /\ UNCHANGED <<pycountry, argVars, normVars, isoVars, trackVars, areaVars>>

\* the debugging output of main, from args.value_col
Diagnostics(valname, m) ==
    [valname |-> valname,
     matched |-> IF valname # NoCol /\ valname = m.value_col
                 THEN CountNotNa(m.rows) ELSE CountIsoNotNa(m.rows)]

\* a variant that goes on to the merge without a usable ISO column
ChooseAndMergeNoExit ==
    /\ mpc = "choose"
    /\ chosen' = choose_iso_column(world)
    /\ merged' = [value_col |-> df.value_col,
                  rows |-> IF chosen' = NoCol THEN <<>>
                           ELSE LeftMerge(WorldIsos(world, chosen'), df.rows, 1)]
    /\ diag' = Diagnostics(args_value_col, merged')
    /\ mpc' = "static"
    /\ UNCHANGED <<exit_status, fatal>>
    /\ UNCHANGED <<df, warned, world, outputs, static_col>>
    /\ UNCHANGED <<pycountry, argVars, normVars, isoVars, trackVars, areaVars>>

\* chosen = choose_iso_column(world); the rename; _normalize_world_iso; the
\* merge; the debugging output
ChooseAndMerge ==
    /\ mpc = "choose"
    /\ chosen' = choose_iso_column(world)
    /\ IF chosen' = NoCol
       THEN /\ Exit("no ISO column")
            /\ UNCHANGED <<merged, diag>>
       ELSE /\ merged' = [value_col |-> df.value_col,
                          rows |-> LeftMerge(WorldIsos(world, chosen'), df.rows, 1)]
            /\ diag' = Diagnostics(args_value_col, merged')
            /\ mpc' = "static"
            /\ UNCHANGED <<exit_status, fatal>>
    /\ UNCHANGED <<df, warned, world, outputs, static_col>>
    /\ UNCHANGED <<pycountry, argVars, normVars, isoVars, trackVars, areaVars>>

\* generate_static_map(merged, args.value_col, out_png, ...)
GenerateStaticMap ==
    /\ mpc = "static"
    /\ outputs' = outputs \cup {"png"}
    /\ static_col' = args_value_col
    /\ mpc' = "interactive"
    /\ UNCHANGED <<df, warned, world, chosen, merged, diag, exit_status, fatal>>
    /\ UNCHANGED <<pycountry, argVars, normVars, isoVars, trackVars, areaVars>>

\* if args.interactive: generate_interactive_map(...), which returns without
\* writing when folium is not installed. With a column name the merged frame
\* lacks, folium either raises (an uncaught exception: status 1) or writes.
GenerateInteractiveMap ==
    /\ mpc = "interactive"
    /\ \E folium \in BOOLEAN, raised \in BOOLEAN :
          IF args_interactive /\ folium /\ raised /\ args_value_col # merged.value_col
          THEN /\ exit_status' = 1
               /\ mpc' = "crashed"
               /\ UNCHANGED outputs
          ELSE /\ outputs' = IF args_interactive /\ folium
                             THEN outputs \cup {"html"} ELSE outputs
               /\ exit_status' = 0
               /\ mpc' = "done"
    /\ UNCHANGED <<df, warned, world, chosen, merged, diag, static_col, fatal>>
    /\ UNCHANGED <<pycountry, argVars, normVars, isoVars, trackVars, areaVars>>

-----------------------------------------------------------------------------
(* Specification SpecMain: one run of generate_choropleth.py                 *)

InitMain ==
    /\ IsTableOver(csv_file, MainHeaders, MainCells, 0, MaxCsvRows)
    /\ args_country_col \in {NoCol} \cup ColsOfKind(csv_file, "name")
    /\ args_value_col \in {NoCol} \cup ColsOfKind(csv_file, "value")
    /\ args_iso_col \in {NoCol, "iso3", "code"}
    /\ args_interactive \in BOOLEAN
    /\ IsTableOver(geo, MainGeoHeaders, MainGeoCells, 0, MaxFeatures)
    /\ pycountry \in {PycNone, Pyc({France, Italy})}
    /\ MainFresh
    /\ mpc = "start"
    /\ NormIdle
    /\ IsoIdle
    /\ TrackIdle
    /\ AreaIdle

NextMain ==
    \/ LoadAndPrepare
    \/ ReadWorld
    \/ ChooseAndMerge
    \/ GenerateStaticMap
    \/ GenerateInteractiveMap

SpecMain == InitMain /\ [][NextMain]_vars

-----------------------------------------------------------------------------
(* Specification SpecLoad: load_and_prepare on every bounded table           *)

InitLoad ==
    /\ IsTableOver(csv_file, LoadHeaders, LoadCells, 0, MaxLoadRows)
    /\ args_country_col \in {NoCol} \cup ColsOfKind(csv_file, "name")
    /\ args_value_col \in {NoCol} \cup ColsOfKind(csv_file, "value")
    /\ args_iso_col \in {NoCol, "iso3", "code"}
    /\ args_interactive = FALSE
    /\ geo = NoTable
    /\ pycountry \in {PycNone, Pyc({France, Italy})}
    /\ MainFresh
    /\ mpc = "start"
    /\ NormIdle
    /\ IsoIdle
    /\ TrackIdle
    /\ AreaIdle

NextLoad == LoadAndPrepare

SpecLoad == InitLoad /\ [][NextLoad]_vars

-----------------------------------------------------------------------------
(* Specification SpecChoose: choose_iso_column on every bounded dataset      *)

InitChoose ==
    /\ csv_file = [columns |-> <<"iso3", "value">>, rows |-> <<>>]
    /\ args_country_col = NoCol
    /\ args_value_col = "value"
    /\ args_iso_col = "iso3"
    /\ args_interactive = FALSE
    /\ IsTableOver(geo, GeoHeaders, GeoCells, MaxGeoRows, MaxGeoRows)
    /\ pycountry = PycNone
    /\ df = [value_col |-> "value", rows |-> <<>>]
    /\ warned = 0
    /\ world = geo
    /\ chosen = NoCol
    /\ merged = NoFrame
    /\ diag = NoDiag
    /\ outputs = {}
    /\ static_col = NoCol
    /\ exit_status = -1
    /\ fatal = ""
    /\ mpc = "choose"
    /\ NormIdle
    /\ IsoIdle
    /\ TrackIdle
    /\ AreaIdle

NextChoose == ChooseAndMerge

SpecChoose == InitChoose /\ [][NextChoose]_vars

-----------------------------------------------------------------------------
(* compute_track_per_area.py / compute_track_per_capita.py, main(): the row  *)
(* loop (one action per row read), the write of OUT_FILE, the report         *)

\* a variant of the loop body without the try/except around float()
ProcessRowNoCatch ==
    /\ tpc = "loop"
    /\ ti <= Len(track_file)
    /\ LET r == track_file[ti]
       IN  IF Len(r) < 3
           THEN UNCHANGED <<rows, unmatched, tpc>>
           ELSE LET country_raw == StrStrip(r[1])
                    iso_raw == StrStrip(r[2])
                    parsed == parse_track(StrStrip(r[3]))
                    ref == lookup_reference(ref_map, variant, norm_name(country_raw))
                    iso3 == numeric_to_alpha3(iso_raw, pycountry)
                IN  IF parsed.raised
                    THEN tpc' = "crashed" /\ UNCHANGED <<rows, unmatched>>
                    ELSE IF ref = NoRef \/ ref.num = 0
                    THEN /\ unmatched' = Append(unmatched, [name |-> country_raw, src |-> ti])
                         /\ UNCHANGED <<rows, tpc>>
                    ELSE /\ rows' = Append(rows,
                                [country |-> country_raw,
                                 iso |-> IF iso3 # <<>> THEN iso3 ELSE iso_raw,
                                 value |-> ValueOf(variant, parsed.value, ref),
                                 src |-> ti])
                         /\ UNCHANGED <<unmatched, tpc>>
    /\ ti' = ti + 1
    /\ UNCHANGED <<variant, ref_map, track_file, out_file, reported>>
    /\ UNCHANGED <<pycountry, normVars, isoVars, argVars, mainVars, areaVars>>

\* for r in reader: one pass of the loop body
ProcessRow ==
    /\ tpc = "loop"
    /\ ti <= Len(track_file)
    /\ LET r == track_file[ti]
       IN  IF Len(r) < 3
           THEN UNCHANGED <<rows, unmatched>>
           ELSE LET country_raw == StrStrip(r[1])
                    iso_raw == StrStrip(r[2])
                    parsed == parse_track(StrStrip(r[3]))
                    \* except Exception: track = 0.0
                    track == IF parsed.raised THEN Frac(0, 1) ELSE parsed.value
                    ref == lookup_reference(ref_map, variant, norm_name(country_raw))
                    iso3 == numeric_to_alpha3(iso_raw, pycountry)
                IN  IF ref = NoRef \/ ref.num = 0
                    THEN /\ unmatched' = Append(unmatched, [name |-> country_raw, src |-> ti])
                         /\ UNCHANGED rows
                    ELSE /\ rows' = Append(rows,
                                [country |-> country_raw,
                                 iso |-> IF iso3 # <<>> THEN iso3 ELSE iso_raw,
                                 value |-> ValueOf(variant, track, ref),
                                 src |-> ti])
                         /\ UNCHANGED unmatched
    /\ ti' = ti + 1
    /\ UNCHANGED <<variant, ref_map, track_file, out_file, reported, tpc>>
    /\ UNCHANGED <<pycountry, normVars, isoVars, argVars, mainVars, areaVars>>

\* the loop is over: write the header and every row of rows to OUT_FILE
WriteOutput ==
    /\ tpc = "loop"
    /\ ti > Len(track_file)
    /\ out_file' = [i \in 1..Len(rows) |->
                       [country |-> rows[i].country, iso |-> rows[i].iso,
                        value |-> rows[i].value]]
    /\ tpc' = "report"
    /\ UNCHANGED <<variant, ref_map, track_file, ti, rows, unmatched, reported>>
    /\ UNCHANGED <<pycountry, normVars, isoVars, argVars, mainVars, areaVars>>

\* if unmatched: print each name to stderr
ReportUnmatched ==
    /\ tpc = "report"
    /\ reported' = [i \in 1..Len(unmatched) |-> unmatched[i].name]
    /\ tpc' = "done"
    /\ UNCHANGED <<variant, ref_map, track_file, ti, rows, unmatched, out_file>>
    /\ UNCHANGED <<pycountry, normVars, isoVars, argVars, mainVars, areaVars>>

-----------------------------------------------------------------------------
(* Specification SpecTrack: one run of either track script                   *)

InitTrack ==
    /\ variant \in {"area", "capita"}
    /\ IsRefMap(ref_map, MaxRefKeys)
    /\ IsTrackFile(track_file, MaxTrackRows)
    /\ pycountry = Pyc(FullRegistry)
    /\ ti = 1
    /\ rows = <<>>
    /\ unmatched = <<>>
    /\ out_file = NotWritten
    /\ reported = NotWritten
    /\ tpc = "loop"
    /\ NormIdle
    /\ IsoIdle
    /\ MainIdle
    /\ AreaIdle

NextTrack == ProcessRow \/ WriteOutput \/ ReportUnmatched

SpecTrack == InitTrack /\ [][NextTrack]_vars

-----------------------------------------------------------------------------
(* Claims about the track pipelines                                          *)

SrcsOf(q) == {q[i].src : i \in 1..Len(q)}
Increasing(q) == \A i, j \in 1..Len(q) : i < j => q[i].src < q[j].src
RefOfRow(i) ==
    lookup_reference(ref_map, variant, norm_name(StrStrip(track_file[i][1])))

\* C2: for rows of at least three fields the loop never aborts, and each such
\* row ends, in input order, in exactly one place: the output rows when a
\* non-zero reference value was resolved for its name, else the unmatched
\* list under its raw name; the list is reported only after the whole batch
\* is processed and the output is written.
C2_EveryRowOutputOrUnmatched ==
    LET read == {i \in 1..(ti - 1) : Len(track_file[i]) >= 3}
    IN  /\ tpc # "crashed"
        /\ SrcsOf(rows) \cup SrcsOf(unmatched) = read
        /\ SrcsOf(rows) \cap SrcsOf(unmatched) = {}
        /\ Increasing(rows) /\ Increasing(unmatched)
        /\ \A i \in 1..Len(rows) :
              /\ RefOfRow(rows[i].src) # NoRef
              /\ RefOfRow(rows[i].src).num # 0
              /\ rows[i].country = StrStrip(track_file[rows[i].src][1])
        /\ \A i \in 1..Len(unmatched) :
              /\ RefOfRow(unmatched[i].src) = NoRef \/ RefOfRow(unmatched[i].src).num = 0
              /\ unmatched[i].name = StrStrip(track_file[unmatched[i].src][1])
        /\ out_file # NotWritten =>
              /\ ti = Len(track_file) + 1
              /\ Len(out_file) = Len(rows)
        /\ reported # NotWritten =>
              /\ out_file # NotWritten
              /\ reported = [i \in 1..Len(unmatched) |-> unmatched[i].name]
        /\ tpc = "done" => reported # NotWritten

C2_Witness ==
    /\ tpc = "done"
    /\ track_file = << <<<<"F", "r", "a", "n", "c", "e">>, <<"2", "5", "0">>, <<"1", "2", "0", ".", "5">>>>,
                       <<<<"A", "t", "l", "a", "n", "t", "i", "s">>, <<"9", "9", "9">>, <<"n", "/", "a">>>> >>
    /\ Len(out_file) = 1
    /\ out_file[1].iso = FRA
    /\ reported = << <<"A", "t", "l", "a", "n", "t", "i", "s">> >>

IsNumericCode(x) == Len(x) > 0 /\ \A i \in 1..Len(x) : x[i] \in Digits

\* C5: a row whose ISO field is a numeric code the registry does not know is
\* unresolved (listed as unmatched, not output), so every row of the output
\* CSV carries an alpha-3 code of the registry, never the raw code.
C5_OutputCarriesRegistryAlpha3 ==
    /\ \A i \in 1..Len(rows) :
          LET iso_raw == StrStrip(track_file[rows[i].src][2])
          IN  ~(IsNumericCode(iso_raw)
                  /\ countries_get_numeric(pycountry.countries, zfill3(iso_raw)) = NoCountry)
    /\ out_file # NotWritten =>
          \A i \in 1..Len(out_file) :
              \E c \in pycountry.countries : out_file[i].iso = c.alpha_3

\* C6: a value cell that cannot be parsed is never turned into 0:
\* load_and_prepare keeps the row with a missing value, and the track
\* pipelines skip a row whose quantity holds no parseable number instead of
\* emitting a value computed from 0.
C6_UnparseableNeverZero ==
    /\ \A i \in 1..Len(df.rows) :
          ~IsDigits(Cell(csv_file, df.rows[i].row, df.value_col))
              => df.rows[i].value = NaNVal
    /\ \A i \in 1..Len(rows) :
          ~parse_track(StrStrip(track_file[rows[i].src][3])).raised

-----------------------------------------------------------------------------
(* Claims about generate_choropleth.py                                       *)

AfterMerge == mpc \in {"static", "interactive", "done", "crashed"}

MergedRowsOf(f) == {i \in 1..Len(merged.rows) : merged.rows[i].feature = f}
MetricValuesOf(code) ==
    {df.rows[i].value : i \in {j \in 1..Len(df.rows) : df.rows[j].iso_a3 = code}}

\* C1: the merge is a left join on iso_a3: every geometry feature is in the
\* merged output exactly once (also when a code occurs in several metric
\* rows), with its metric value when a metric row has its code and with a
\* missing value otherwise; so metric rows matching no feature do not appear.
C1_LeftJoinEachFeatureOnce ==
    AfterMerge =>
        /\ \A i \in 1..Len(merged.rows) : merged.rows[i].feature \in 1..Len(world.rows)
        /\ \A f \in 1..Len(world.rows) :
              LET code == _normalize_world_iso(Cell(world, f, chosen))
              IN  /\ Cardinality(MergedRowsOf(f)) = 1
                  /\ \A i \in MergedRowsOf(f) :
                        /\ merged.rows[i].iso_a3 = code
                        /\ IF MetricValuesOf(code) = {}
                           THEN merged.rows[i].value = NaNVal
                           ELSE merged.rows[i].value \in MetricValuesOf(code)

\* the value column load_and_prepare can settle on: given, or a detectable header
ValueColKnown ==
    \/ args_value_col # NoCol
    \/ \E i \in 1..Len(csv_file.columns) :
          ColLower(csv_file.columns[i]) \in {"value", "val", "metric", "score"}

\* the code column load_and_prepare can settle on: an ISO column of the file
\* (given, or a detectable header when none is given), else a country column
EffectiveIsoCol ==
    IF args_iso_col # NoCol THEN args_iso_col
    ELSE LET hits == {i \in 1..Len(csv_file.columns) :
                         ColLower(csv_file.columns[i]) \in
                             {"iso", "iso3", "iso_a3", "country_iso", "country_iso3",
                              "country_iso_a3", "country_iso_code"}}
         IN  IF hits = {} THEN NoCol
             ELSE csv_file.columns[CHOOSE i \in hits : \A j \in hits : i <= j]
IsoColAvailable == EffectiveIsoCol # NoCol /\ HasCol(csv_file, EffectiveIsoCol)
CountryColKnown ==
    \/ args_country_col # NoCol
    \/ \E i \in 1..Len(csv_file.columns) :
          ColLower(csv_file.columns[i]) \in {"country", "country_name", "name", "nation"}

\* the columns of a dataset that hold at least one alpha-3 code
LooksAlpha3(cell) ==
    /\ IsStr(cell)
    /\ Len(StrStrip(cell)) = 3
    /\ \A i \in 1..3 : IsAlphaCh(StrStrip(cell)[i])
GoodCount(t, c) ==
    Cardinality({r \in 1..Len(t.rows) :
        /\ LooksAlpha3(Cell(t, r, c))
        /\ StrStrip(Cell(t, r, c)) \notin {<<"-", "9", "9">>, <<"0">>}})
CandidateCols(t) ==
    {t.columns[i] : i \in {j \in 1..Len(t.columns) :
        ColLower(t.columns[j]) \in {"iso_a3", "iso3", "iso", "adm0_a3"}}}
UsableIsoCols(t) == {c \in CandidateCols(t) : GoodCount(t, c) > 0}

\* C3: each fatal condition (no value column given or detected; geometry not
\* loaded; no usable ISO column in the geometry) ends the run with status 1
\* and no output file: a run that exits at a sys.exit(1) has written nothing
\* and takes no further step, and a run never gets past the stage a fatal
\* condition belongs to, so no file is written in a run that had one.
C3_FatalExitWritesNothing ==
    /\ fatal # "" <=> mpc = "exited"
    /\ mpc = "exited" =>
          /\ exit_status = 1
          /\ outputs = {}
          /\ static_col = NoCol
          /\ ~ENABLED NextMain
    /\ ~ValueColKnown => mpc \in {"start", "exited"}
    /\ (~ValueColKnown /\ mpc = "exited") => fatal = "no value column"
    /\ (mpc \notin {"start", "read_world", "exited"}) => world = geo
    /\ AfterMerge => chosen \in UsableIsoCols(world)
    /\ outputs # {} => (AfterMerge /\ fatal = "")

C3_Witness ==
    /\ mpc = "exited"
    /\ fatal = "no ISO column"
    /\ exit_status = 1
    /\ outputs = {}
    /\ Len(df.rows) > 0

\* the canonical code of an ISO cell: alpha-3 uppercased, or the registry's
\* alpha-3 for an alpha-2 code; None when the cell fails both validations
CanonicalOfIsoCell(cell) ==
    LET text == IF cell = NaN THEN <<"n", "a", "n">> ELSE cell
        t == StrStrip(text)
    IN  IF LooksAlpha3(text) THEN StrUpper(t)
        ELSE IF Len(t) = 2 /\ pycountry.imported
                /\ \E c \in pycountry.countries : c.alpha_2 = StrUpper(t)
             THEN (CHOOSE c \in pycountry.countries : c.alpha_2 = StrUpper(t)).alpha_3
             ELSE None

KeptByIso == {r \in 1..Len(csv_file.rows) :
                 CanonicalOfIsoCell(Cell(csv_file, r, EffectiveIsoCol)) # None}

MaxScore(t) ==
    IF CandidateCols(t) = {} THEN 0
    ELSE LET c == CHOOSE c \in CandidateCols(t) :
                     \A d \in CandidateCols(t) : GoodCount(t, d) <= GoodCount(t, c)
         IN  GoodCount(t, c)

\* C9: choose_iso_column returns a candidate column whose score (the number
\* of its values that are, once trimmed, 3 alphabetic characters and no
\* sentinel) is maximal, and None when there is no candidate or the maximal
\* score is 0; ISO_A3 = [-99, -99, FRA], ADM0_A3 = [FRA, NOR, FRA] gives ADM0_A3.
C9_ChoosesMaximalScore ==
    (mpc \in {"static", "exited"}) =>
        IF MaxScore(world) = 0
        THEN chosen = NoCol /\ mpc = "exited"
        ELSE /\ chosen \in CandidateCols(world)
             /\ GoodCount(world, chosen) = MaxScore(world)
             /\ mpc = "static"

C9_Witness ==
    /\ mpc = "static"
    /\ world.columns = <<"ISO_A3", "ADM0_A3">>
    /\ world.rows = << <<Minus99, FRA>>, <<Minus99, NOR>>, <<FRA, FRA>> >>
    /\ chosen = "ADM0_A3"

\* C10: among candidates with the same highest non-zero score,
\* choose_iso_column returns the one that comes first in the candidate list
\* (the order of the dataset's columns), whatever the columns are called.
C10_TieGoesToFirstCandidate ==
    (mpc = "static") =>
        \A i \in 1..Len(world.columns) :
            (/\ world.columns[i] \in CandidateCols(world)
             /\ GoodCount(world, world.columns[i]) = MaxScore(world)
             /\ \A j \in 1..(i - 1) :
                   world.columns[j] \in CandidateCols(world)
                       => GoodCount(world, world.columns[j]) < MaxScore(world))
            => chosen = world.columns[i]

-----------------------------------------------------------------------------
(* The value column after loading                                            *)

\* C14: after load_and_prepare, main works with the value column that
\* load_and_prepare selected (the one given, else the one detected from the
\* header): the debugging output names it and counts the features that have a
\* value in it, and generate_static_map is handed that column.
C14_RenderUsesSelectedValueCol ==
    /\ mpc \in {"static", "interactive", "done", "crashed"} =>
          /\ diag.valname = df.value_col
          /\ diag.matched = CountNotNa(merged.rows)
    /\ mpc \in {"interactive", "done", "crashed"} =>
          static_col = df.value_col

-----------------------------------------------------------------------------
(* Specification SpecResolve: the track scripts on names that exercise each  *)
(* stage of the reference lookup                                             *)

InitResolve ==
    /\ variant \in {"area", "capita"}
    /\ IsMapOver(ref_map, ResolvePool, MaxRefKeys)
    /\ \E k \in 0..MaxTrackRows : track_file \in [1..k -> ResolveRowKinds]
    /\ pycountry = Pyc(FullRegistry)
    /\ ti = 1
    /\ rows = <<>>
    /\ unmatched = <<>>
    /\ out_file = NotWritten
    /\ reported = NotWritten
    /\ tpc = "loop"
    /\ NormIdle
    /\ IsoIdle
    /\ MainIdle
    /\ AreaIdle

SpecResolve == InitResolve /\ [][NextTrack]_vars

\* the rows read so far that have at least three fields
ReadRows == {i \in 1..(ti - 1) : Len(track_file[i]) >= 3}

NameOfRow(i) == norm_name(StrStrip(track_file[i][1]))

\* the track length of row i as the loop takes it
TrackOfRow(i) ==
    LET parsed == parse_track(StrStrip(track_file[i][3]))
    IN  IF parsed.raised THEN Frac(0, 1) ELSE parsed.value

\* row i was given the reference value x: unmatched when x is 0, else output
\* with the value computed from x
UsesRef(i, x) ==
    IF x.num = 0 THEN i \in SrcsOf(unmatched)
    ELSE \E j \in 1..Len(rows) :
            /\ rows[j].src = i
            /\ rows[j].value = ValueOf(variant, TrackOfRow(i), x)

\* the positions of the reference keys in a substring relation with the name
SubstringHits(name) ==
    {j \in 1..Len(ref_map) :
        IsSubstr(name, ref_map[j].k) \/ IsSubstr(ref_map[j].k, name)}

\* C12: the name resolution is first-success: a normalized name that is a
\* reference key takes that key's value; else a name that is an alias key
\* whose target is a reference key takes the target's value; only else the
\* substring scan runs and takes the first reference key, in insertion order,
\* with the name inside the key or the key inside the name; with no such key
\* the row is unmatched.
C12_ResolutionFirstSuccess ==
    \A i \in ReadRows :
        LET name == NameOfRow(i)
            hits == SubstringHits(name)
        IN  IF HasKey(ref_map, name)
            THEN UsesRef(i, ValueAt(ref_map, name))
            ELSE IF InAlias(variant, name) /\ HasKey(ref_map, AliasOf(variant, name))
            THEN UsesRef(i, ValueAt(ref_map, AliasOf(variant, name)))
            ELSE IF hits = {} THEN i \in SrcsOf(unmatched)
            ELSE UsesRef(i, ref_map[CHOOSE j \in hits : \A h \in hits : j <= h].v)

C12_Witness ==
    /\ tpc = "done"
    /\ ref_map = << [k |-> <<>>, v |-> Frac(9, 1)],
                    [k |-> <<"r", "e", "p", "u", "b", "l", "i", "c", " ", "o", "f", " ", "t", "h", "e", " ", "c", "o", "n", "g", "o">>, v |-> Frac(342, 1)] >>
    /\ track_file = << <<<<"C", "o", "n", "g", "o">>, <<"2", "5", "0">>, <<"1", "2", "0", ".", "5">>>>,
                       <<<<"F", "r", "a">>, <<"2", "5", "0">>, <<"1", "2", "0", ".", "5">>>> >>
    /\ Len(rows) = 2
    /\ rows[1].value = ValueOf(variant, Frac(1205, 10), Frac(342, 1))
    /\ rows[2].value = ValueOf(variant, Frac(1205, 10), Frac(9, 1))

\* C13: the substring fallback never resolves through an empty string: a row
\* whose name normalizes to '' (and '' is not itself a reference key) is
\* unmatched, and a row with a non-empty name that reaches the scan with no
\* non-empty key in a substring relation with it is unmatched.
C13_NoEmptySubstringMatch ==
    \A i \in ReadRows :
        LET name == NameOfRow(i)
            proper == {j \in SubstringHits(name) : ref_map[j].k # <<>>}
            scanned == /\ ~HasKey(ref_map, name)
                       /\ ~(InAlias(variant, name)
                              /\ HasKey(ref_map, AliasOf(variant, name)))
        IN  /\ (name = <<>> /\ scanned) => i \in SrcsOf(unmatched)
            /\ (name # <<>> /\ scanned /\ proper = {}) => i \in SrcsOf(unmatched)

-----------------------------------------------------------------------------
(* Specification SpecArea: parse_area on every bounded string                *)

InitArea ==
    /\ \/ area_raw = None
       \/ area_raw \in AreaSamples
       \/ IsStringUpTo(area_raw, AreaAlphabet, MaxAreaLen)
    /\ area_val = Missing
    /\ apc = "start"
    /\ pycountry = PycNone
    /\ NormIdle
    /\ IsoIdle
    /\ MainIdle
    /\ TrackIdle

\* val = parse_area(area_raw)
ParseArea ==
    /\ apc = "start"
    /\ area_val' = parse_area(area_raw)
    /\ apc' = "done"
    /\ UNCHANGED <<area_raw, pycountry, normVars, isoVars, argVars, mainVars, trackVars>>

NextArea == ParseArea

SpecArea == InitArea /\ [][NextArea]_vars

\* a decimal number: digits, or digits (possibly none) then '.' then digits
DecimalNumber(s) ==
    \E i \in 0..Len(s) :
        /\ \A j \in 1..i : s[j] \in Digits
        /\ \/ i = Len(s) /\ i > 0
           \/ /\ i + 1 < Len(s)
              /\ s[i + 1] = "."
              /\ \A j \in (i + 2)..Len(s) : s[j] \in Digits

HasDigit(s) == \E i \in 1..Len(s) : s[i] \in Digits

\* C11: parse_area, for every input: a decimal number followed by K or M
\* (either case) yields the number times 1000 or 1000000; with '<', commas and
\* thin spaces removed (and the ends trimmed) a decimal number is taken as-is;
\* an input that is None, empty, 'nan' or without a digit yields missing.
C11_ParseAreaSuffixCleanMissing ==
    (apc = "done") =>
        LET n     == Len(area_raw)
            front == SubSeq(area_raw, 1, n - 1)
            clean == StripOf(RemoveChars(area_raw, ThinSpaces \cup {",", "<"}),
                             UnicodeSpace)
            bare  == StripOf(area_raw, UnicodeSpace)
        IN  /\ (area_raw # None /\ n >= 2 /\ DecimalNumber(front)
                  /\ area_raw[n] \in {"k", "K", "m", "M"}) =>
                  /\ ~area_val.none
                  /\ area_val.value =
                        Times(DecOf(front),
                              IF area_raw[n] \in {"k", "K"} THEN 1000 ELSE 1000000)
            /\ (area_raw # None /\ DecimalNumber(clean)) =>
                  /\ ~area_val.none
                  /\ area_val.value = DecOf(clean)
            /\ (area_raw = None \/ bare = <<>> \/ StrLower(bare) = <<"n", "a", "n">>
                  \/ ~HasDigit(area_raw)) =>
                  area_val.none

C11_Witness ==
    /\ apc = "done"
    /\ area_raw = <<"3", "6", "4", ".", "5", "K">>
    /\ ~area_val.none
    /\ area_val.value = Dec(3645, 2)

====
